---- MODULE Spec2Model ----
(***************************************************************************)
(* Model of the data-cleaning helpers of the repository:                   *)
(*   homework/homework3/src/utils.py     get_summary_stats                  *)
(*   homework/homework6/src/cleaning.py  fill_missing_median, drop_missing, *)
(*                                       normalize_data                     *)
(*   project/src/utils.py                handle_missing_values,             *)
(*                                       remove_outliers, normalize_data,   *)
(*                                       standardize_data,                  *)
(*                                       check_data_quality,                *)
(*                                       create_sample_data                 *)
(*                                                                         *)
(* A table (DataFrame) is a sequence of rows; a row is a record with the   *)
(* index label idx and one cell per column.  A numeric cell is an exact    *)
(* rational <<n, d>> in lowest terms with d > 0; the missing value NaN is  *)
(* <<0, 0>>.  The caller holds one table, df; a call records the table as  *)
(* it was passed (df0), the arguments (call) and what came back (ret).     *)
(***************************************************************************)
EXTENDS Integers, Sequences, FiniteSets, TLC

VARIABLES pc, df, df0, call, ret, report

vars == <<pc, df, df0, call, ret, report>>

\* ------------------------------------------------------------------ bounds

\* Largest number of rows of a loaded table.
MaxRows == 3

\* Largest n_rows and n_cols passed to create_sample_data.
MaxSampleRows == 2
MaxSampleCols == 4

\* The columns of a loaded table, in column order.
Cols == <<"x", "g">>
ColSet == {"x", "g"}

\* The finite values a loaded cell can hold: x is a measurement, g a group key.
XVals == {0, 3, 4}
GVals == {0, 1}

\* ------------------------------------------------------- exact rationals

NaN == <<0, 0>>

Abs(n) == IF n < 0 THEN -n ELSE n

Sign(n) == IF n < 0 THEN -1 ELSE IF n = 0 THEN 0 ELSE 1

RECURSIVE GCD(_, _)
GCD(a, b) == IF b = 0 THEN a ELSE GCD(b, a % b)

\* n/d in lowest terms; x/0 is NaN for x = 0 and a signed infinity otherwise.
Rat(n, d) ==
    IF d = 0 THEN <<Sign(n), 0>>
    ELSE LET g == GCD(Abs(n), Abs(d))
             s == IF d < 0 THEN -1 ELSE 1
         IN  <<(s * n) \div g, (s * d) \div g>>

R(n) == <<n, 1>>

IsNaN(c) == c = NaN

IsFinite(c) == c[2] # 0

\* Arithmetic of floats on the values the model reaches: NaN propagates.
RAdd(a, b) == IF ~IsFinite(a) \/ ~IsFinite(b) THEN NaN
              ELSE Rat(a[1] * b[2] + b[1] * a[2], a[2] * b[2])

RSub(a, b) == IF ~IsFinite(a) \/ ~IsFinite(b) THEN NaN
              ELSE Rat(a[1] * b[2] - b[1] * a[2], a[2] * b[2])

RMul(a, b) == IF ~IsFinite(a) \/ ~IsFinite(b) THEN NaN
              ELSE Rat(a[1] * b[1], a[2] * b[2])

RDiv(a, b) == IF ~IsFinite(a) \/ ~IsFinite(b) THEN NaN
              ELSE Rat(a[1] * b[2], a[2] * b[1])

\* Comparisons; every comparison with NaN is False.
RLe(a, b) == IsFinite(a) /\ IsFinite(b) /\ a[1] * b[2] <= b[1] * a[2]

RLt(a, b) == IsFinite(a) /\ IsFinite(b) /\ a[1] * b[2] < b[1] * a[2]

RGe(a, b) == RLe(b, a)

\* ------------------------------------------------------ column statistics

Range(s) == {s[i] : i \in DOMAIN s}

\* The cells of column c, in row order.
Column(t, c) == [i \in DOMAIN t |-> t[i][c]]

\* The non-missing values of a sequence of cells (skipna).
Valid(v) == SelectSeq(v, LAMBDA c : ~IsNaN(c))

\* The k-th smallest (k >= 1) of a non-empty sequence of finite values.
OrderStat(v, k) ==
    CHOOSE m \in Range(v) :
        /\ Cardinality({i \in DOMAIN v : RLt(v[i], m)}) < k
        /\ Cardinality({i \in DOMAIN v : RLe(v[i], m)}) >= k

RECURSIVE RSum(_)
RSum(v) == IF v = <<>> THEN R(0) ELSE RAdd(Head(v), RSum(Tail(v)))

\* Series.min / Series.max: NaN when there is no non-missing value.
ColMin(v) == LET w == Valid(v) IN IF w = <<>> THEN NaN ELSE OrderStat(w, 1)

ColMax(v) == LET w == Valid(v) IN IF w = <<>> THEN NaN ELSE OrderStat(w, Len(w))

\* Series.quantile(qn/qd), linear interpolation between the two nearest order
\* statistics; NaN when there is no non-missing value.
Quantile(v, qn, qd) ==
    LET w == Valid(v)
        h == qn * (Len(w) - 1)
        lo == OrderStat(w, (h \div qd) + 1)
        hi == OrderStat(w, (h \div qd) + 2)
    IN  IF w = <<>> THEN NaN
        ELSE IF h % qd = 0 THEN lo
        ELSE RAdd(lo, RMul(RSub(hi, lo), Rat(h % qd, qd)))

\* Series.median: the middle value, or the mean of the two middle values.
Median(v) == Quantile(v, 1, 2)

\* Series.mean (skipna).
Mean(v) == LET w == Valid(v) IN
    IF w = <<>> THEN NaN ELSE RDiv(RSum(w), R(Len(w)))

\* The variance with ddof degrees of freedom removed (the square of std);
\* NaN when fewer than ddof + 1 values are present.
Variance(v, ddof) ==
    LET w == Valid(v)
        m == Mean(v)
        sq == [i \in DOMAIN w |-> RMul(RSub(w[i], m), RSub(w[i], m))]
    IN  IF Len(w) <= ddof THEN NaN ELSE RDiv(RSum(sq), R(Len(w) - ddof))

\* ------------------------------------------------------------------ state

NoCall == [fn |-> "none"]
Unset == [kind |-> "unset"]

Init ==
    /\ pc = "start"
    /\ df = <<>>
    /\ df0 = <<>>
    /\ call = NoCall
    /\ ret = Unset
    /\ report = Unset

XCell == {NaN} \cup {R(n) : n \in XVals}
GCell == {NaN} \cup {R(n) : n \in GVals}

\* load_data_with_auto_detect: the caller obtains a table from a file; the rows
\* carry the default index labels 0 .. n-1.
LoadTable ==
    /\ pc = "start"
    /\ \E n \in 0..MaxRows :
         \E xs \in [1..n -> XCell], gs \in [1..n -> GCell] :
            df' = [i \in 1..n |-> [idx |-> i - 1, x |-> xs[i], g |-> gs[i]]]
    /\ pc' = "ready"
    /\ UNCHANGED <<df0, call, ret, report>>

Returned(t, obj) == [kind |-> "table", obj |-> obj, table |-> t]
Raised(exc) == [kind |-> "raise", exc |-> exc]

\* ------------------------------------------- homework6/src/cleaning.py

\* The lists of columns passed as required_columns; "c" is not a column.
ColumnLists == {<<>>, <<"x">>, <<"g">>, <<"x", "g">>, <<"x", "x">>, <<"x", "c">>}

\* A plausible slip: taking the element at position n // 2 of the sorted values
\* as the median, without averaging the two middle values of an even count.
FillColumn_MiddleElement(t, c) ==
    LET w == Valid(Column(t, c))
        m == IF w = <<>> THEN NaN ELSE OrderStat(w, (Len(w) \div 2) + 1)
    IN  [i \in DOMAIN t |-> IF IsNaN(t[i][c]) THEN [t[i] EXCEPT ![c] = m] ELSE t[i]]

\* df[column] = df[column].fillna(df[column].median())
FillColumn(t, c) ==
    [i \in DOMAIN t |->
        IF IsNaN(t[i][c]) THEN [t[i] EXCEPT ![c] = Median(Column(t, c))] ELSE t[i]]

\* The loop of fill_missing_median on the caller's table; indexing a column
\* that does not exist raises KeyError and leaves the columns already filled.
RECURSIVE FillLoop(_, _)
FillLoop(t, cols) ==
    IF cols = <<>> THEN [table |-> t, exc |-> "none"]
    ELSE IF Head(cols) \notin ColSet THEN [table |-> t, exc |-> "KeyError"]
    ELSE FillLoop(FillColumn(t, Head(cols)), Tail(cols))

FillMissingMedian ==
    /\ pc = "ready"
    /\ \E rc \in ColumnLists :
         LET r == FillLoop(df, rc) IN
         /\ df' = r.table
         /\ call' = [fn |-> "cleaning.fill_missing_median", required_columns |-> rc]
         /\ ret' = IF r.exc = "none" THEN Returned(r.table, "df") ELSE Raised(r.exc)
    /\ df0' = df
    /\ pc' = "called"
    /\ UNCHANGED report

\* The thresholds passed to drop_missing, as fractions <<n, d>>.
DropThresholds == {<<0, 1>>, <<1, 2>>, <<3, 4>>, <<1, 1>>}

NonNaCount(row) == Cardinality({i \in DOMAIN Cols : ~IsNaN(row[Cols[i]])})

\* df.dropna(thresh=k): the rows with at least k non-missing cells.
DropNaThresh(t, k) == SelectSeq(t, LAMBDA row : NonNaCount(row) >= k)

DropMissing ==
    /\ pc = "ready"
    /\ \E th \in DropThresholds :
         LET required_non_na == (th[1] * Len(Cols)) \div th[2] IN
         /\ call' = [fn |-> "cleaning.drop_missing", threshold |-> th]
         /\ ret' = Returned(DropNaThresh(df, required_non_na), "new")
    /\ df0' = df
    /\ pc' = "called"
    /\ UNCHANGED <<df, report>>

\* A plausible slip: dividing by the maximum instead of the range.
NormalizeColumn_ByMax(t, c) ==
    LET col_max == ColMax(Column(t, c)) IN
    [i \in DOMAIN t |-> [t[i] EXCEPT ![c] = RDiv(t[i][c], col_max)]]

\* df[column] = (df[column] - col_min) / (col_max - col_min)
NormalizeColumn(t, c) ==
    LET col_min == ColMin(Column(t, c))
        col_max == ColMax(Column(t, c))
    IN  [i \in DOMAIN t |->
            [t[i] EXCEPT ![c] = RDiv(RSub(t[i][c], col_min), RSub(col_max, col_min))]]

RECURSIVE NormalizeLoop(_, _)
NormalizeLoop(t, cols) ==
    IF cols = <<>> THEN [table |-> t, exc |-> "none"]
    ELSE IF Head(cols) \notin ColSet THEN [table |-> t, exc |-> "KeyError"]
    ELSE NormalizeLoop(NormalizeColumn(t, Head(cols)), Tail(cols))

NormalizeDataHw6 ==
    /\ pc = "ready"
    /\ \E rc \in ColumnLists :
         LET r == NormalizeLoop(df, rc) IN
         /\ df' = r.table
         /\ call' = [fn |-> "cleaning.normalize_data", required_columns |-> rc]
         /\ ret' = IF r.exc = "none" THEN Returned(r.table, "df") ELSE Raised(r.exc)
    /\ df0' = df
    /\ pc' = "called"
    /\ UNCHANGED report

NextHw6 == LoadTable \/ FillMissingMedian \/ DropMissing \/ NormalizeDataHw6

SpecHw6 == Init /\ [][NextHw6]_vars

\* ---------------------------------------------- claims on cleaning.py

Hw6Fns == {"cleaning.fill_missing_median", "cleaning.drop_missing",
           "cleaning.normalize_data"}

\* C1 (as claimed): after a call of fill_missing_median, drop_missing or
\* normalize_data of cleaning.py the caller's table holds in every cell the value
\* it held before the call.
C1_CallerTableUnchanged ==
    (pc = "called" /\ call.fn \in Hw6Fns) =>
        df = df0

SameShape(t, u) ==
    /\ Len(t) = Len(u)
    /\ \A i \in DOMAIN t : t[i].idx = u[i].idx

\* Column c of t and of u hold the same cells.
SameColumn(t, u, c) == \A i \in DOMAIN t : t[i][c] = u[i][c]

Listed(cols) == Range(cols) \cap ColSet

HasValue(t, c) == \E i \in DOMAIN t : ~IsNaN(t[i][c])

FillReturned == pc = "called" /\ call.fn = "cleaning.fill_missing_median"
                /\ ret.kind = "table"

\* C6 (as claimed): fill_missing_median returns, for every column of
\* required_columns, a column with no missing value, in which every cell that was
\* missing holds the median of the column's originally non-missing values and
\* every other cell is unchanged; the other columns are unchanged.
C6_Original ==
    FillReturned =>
        /\ SameShape(ret.table, df0)
        /\ \A c \in Listed(call.required_columns) : \A i \in DOMAIN df0 :
              /\ ~IsNaN(ret.table[i][c])
              /\ IsNaN(df0[i][c]) => ret.table[i][c] = Median(Column(df0, c))
              /\ ~IsNaN(df0[i][c]) => ret.table[i][c] = df0[i][c]
        /\ \A c \in ColSet \ Listed(call.required_columns) :
              SameColumn(ret.table, df0, c)

\* C6 (amended): the claim holds for every column of required_columns that has at
\* least one non-missing value; a column whose values are all missing has no
\* median and is returned unchanged, still all missing.
C6_Amended ==
    FillReturned =>
        /\ SameShape(ret.table, df0)
        /\ \A c \in Listed(call.required_columns) : \A i \in DOMAIN df0 :
              /\ HasValue(df0, c) => ~IsNaN(ret.table[i][c])
              /\ (HasValue(df0, c) /\ IsNaN(df0[i][c])) =>
                    ret.table[i][c] = Median(Column(df0, c))
              /\ ~IsNaN(df0[i][c]) => ret.table[i][c] = df0[i][c]
              /\ ~HasValue(df0, c) => IsNaN(ret.table[i][c])
        /\ \A c \in ColSet \ Listed(call.required_columns) :
              SameColumn(ret.table, df0, c)

\* A missing cell of a listed column was filled with the mean of two different
\* middle values, a value the column did not hold.
C6_Witness ==
    /\ FillReturned
    /\ \E c \in Listed(call.required_columns) : \E i \in DOMAIN df0 :
          /\ IsNaN(df0[i][c])
          /\ ~IsNaN(ret.table[i][c])
          /\ ret.table[i][c] \notin Range(Column(df0, c))

NormalizeReturned == pc = "called" /\ call.fn = "cleaning.normalize_data"
                     /\ ret.kind = "table"

\* What the claim says of the output cell out of input cell x, in a column with
\* minimum mn and maximum mx.
MinMaxCell(x, out, mn, mx) ==
    /\ out = RDiv(RSub(x, mn), RSub(mx, mn))
    /\ RLe(R(0), out) /\ RLe(out, R(1))
    /\ x = mn => out = R(0)
    /\ x = mx => out = R(1)

OrderKept(t, u, c) ==
    \A i, j \in DOMAIN t : RLt(t[i][c], t[j][c]) => RLt(u[i][c], u[j][c])

\* C8 (as claimed): every output value of a column of required_columns equals
\* (x - min) / (max - min) of the original column, lies in [0, 1], the minimum
\* maps to 0 and the maximum to 1, and the order of values is preserved, also for
\* a column whose values are all equal.
C8_Original ==
    NormalizeReturned =>
        \A c \in Listed(call.required_columns) :
            /\ OrderKept(df0, ret.table, c)
            /\ \A i \in DOMAIN df0 :
                  MinMaxCell(df0[i][c], ret.table[i][c],
                             ColMin(Column(df0, c)), ColMax(Column(df0, c)))

\* C8 (amended): the claim holds for the non-missing values of every column of
\* required_columns whose minimum is below its maximum, and a missing value stays
\* missing; a column whose non-missing values are all equal (max = min), or that
\* has none, is returned with every cell missing (0/0).  Other columns, the
\* number of rows and the index are unchanged.
C8_Amended ==
    NormalizeReturned =>
        /\ SameShape(ret.table, df0)
        /\ \A c \in Listed(call.required_columns) :
              LET mn == ColMin(Column(df0, c))
                  mx == ColMax(Column(df0, c))
              IN  /\ OrderKept(df0, ret.table, c)
                  /\ \A i \in DOMAIN df0 :
                        IF RLt(mn, mx) /\ ~IsNaN(df0[i][c])
                        THEN MinMaxCell(df0[i][c], ret.table[i][c], mn, mx)
                        ELSE IsNaN(ret.table[i][c])
        /\ \A c \in ColSet \ Listed(call.required_columns) :
              SameColumn(ret.table, df0, c)

\* A listed column with three different values was normalized: its middle value
\* went strictly between 0 and 1.
C8_Witness ==
    /\ NormalizeReturned
    /\ \E c \in Listed(call.required_columns) : \E i \in DOMAIN df0 :
          /\ RLt(ColMin(Column(df0, c)), df0[i][c])
          /\ RLt(df0[i][c], ColMax(Column(df0, c)))
          /\ RLt(R(0), ret.table[i][c])
          /\ RLt(ret.table[i][c], R(1))

\* ------------------------------------------------- project/src/utils.py

\* An optional argument: None, or a value.
None == [some |-> FALSE]
Some(v) == [some |-> TRUE, val |-> v]

\* The lists of columns passed as columns; "c" is not a column.
ProjectColumnLists == {<<"x">>, <<"g">>, <<"x", "g">>, <<"x", "c">>}

HasNaIn(row, cols) == \E c \in cols : IsNaN(row[c])

\* A plausible slip: dropna(subset=columns, how='all').
DropNaSubset_HowAll(t, cols) ==
    SelectSeq(t, LAMBDA row : \E c \in cols : ~IsNaN(row[c]))

\* df_clean.dropna(subset=columns): the rows with no missing cell in columns.
DropNaSubset(t, cols) == SelectSeq(t, LAMBDA row : ~HasNaIn(row, cols))

\* df_clean[columns] = df_clean[columns].fillna(fill_value)
FillNaColumns(t, cols, v) ==
    [i \in DOMAIN t |->
        [k \in DOMAIN t[i] |->
            IF k \in cols /\ IsNaN(t[i][k]) THEN v ELSE t[i][k]]]

\* Series.interpolate(method='linear') at position i: a missing value between
\* two present ones lies on the line through them (rows equally spaced), one
\* after the last present value repeats it, one before the first stays missing.
InterpolateAt(v, i) ==
    LET before == {j \in DOMAIN v : j < i /\ ~IsNaN(v[j])}
        after == {j \in DOMAIN v : j > i /\ ~IsNaN(v[j])}
        p == CHOOSE j \in before : \A k \in before : k <= j
        q == CHOOSE j \in after : \A k \in after : j <= k
    IN  IF ~IsNaN(v[i]) THEN v[i]
        ELSE IF before = {} THEN NaN
        ELSE IF after = {} THEN v[p]
        ELSE RAdd(v[p], RMul(RSub(v[q], v[p]), Rat(i - p, q - p)))

\* df_clean[columns] = df_clean[columns].interpolate(method='linear')
InterpolateColumns(t, cols) ==
    [i \in DOMAIN t |->
        [k \in DOMAIN t[i] |->
            IF k \in cols THEN InterpolateAt(Column(t, k), i) ELSE t[i][k]]]

Strategies == {"drop", "fill", "interpolate", "mean"}
FillValues == {None, Some(NaN), Some(R(0)), Some(R(7))}
ColumnArgs == {None} \cup {Some(l) : l \in ProjectColumnLists}

\* handle_missing_values on a copy of df; what it returns or raises.
HandleMissingValues(t, strategy, fill_value, columns) ==
    LET cols == IF columns.some THEN Range(columns.val) ELSE ColSet IN
    IF strategy \in {"drop", "fill", "interpolate"} /\ ~(cols \subseteq ColSet)
    THEN Raised("KeyError")
    ELSE IF strategy = "drop" THEN Returned(DropNaSubset(t, cols), "new")
    ELSE IF strategy = "fill" THEN
        IF fill_value.some THEN Returned(FillNaColumns(t, cols, fill_value.val), "new")
        ELSE Raised("ValueError")
    ELSE IF strategy = "interpolate" THEN Returned(InterpolateColumns(t, cols), "new")
    ELSE Returned(t, "new")

HandleMissing ==
    /\ pc = "ready"
    /\ \E strategy \in Strategies, columns \in ColumnArgs :
         \E fill_value \in IF strategy = "fill" THEN FillValues ELSE {None} :
            /\ call' = [fn |-> "utils.handle_missing_values", strategy |-> strategy,
                        fill_value |-> fill_value, columns |-> columns]
            /\ ret' = HandleMissingValues(df, strategy, fill_value, columns)
    /\ df0' = df
    /\ pc' = "called"
    /\ UNCHANGED <<df, report>>

\* df.isnull().sum(): the number of missing cells of each column.
MissingCount(t) == [c \in ColSet |-> Cardinality({i \in DOMAIN t : IsNaN(t[i][c])})]

SameCells(r1, r2) == \A c \in ColSet : r1[c] = r2[c]

\* df.duplicated().sum(): the rows equal, cell by cell, to an earlier row.
DuplicateRows(t) ==
    Cardinality({i \in DOMAIN t : \E j \in DOMAIN t : j < i /\ SameCells(t[i], t[j])})

\* The report of check_data_quality; every column of the model is a float
\* column.  data_types and memory_usage, which depend on the storage of the
\* table only, are not part of the model.
QualityReport(t) ==
    [kind |-> "report",
     total_rows |-> Len(t),
     total_columns |-> Len(Cols),
     missing_values |-> MissingCount(t),
     missing_percentage |->
        [c \in ColSet |-> RMul(RDiv(R(MissingCount(t)[c]), R(Len(t))), R(100))],
     duplicate_rows |-> DuplicateRows(t),
     numeric_columns |-> Cols,
     categorical_columns |-> <<>>]

\* check_data_quality(cleaned_df): the caller checks the table returned by the
\* last call, as the main block of utils.py does.
CheckDataQuality ==
    /\ pc = "called"
    /\ ret.kind = "table"
    /\ report' = QualityReport(ret.table)
    /\ pc' = "checked"
    /\ UNCHANGED <<df, df0, call, ret>>

NextMissing == LoadTable \/ HandleMissing \/ CheckDataQuality

SpecMissing == Init /\ [][NextMissing]_vars

\* ------------------------------------- claims on handle_missing_values

HandleReturned ==
    /\ pc \in {"called", "checked"}
    /\ call.fn = "utils.handle_missing_values"
    /\ ret.kind = "table"

Processed == IF call.columns.some THEN Range(call.columns.val) ELSE ColSet

DropsOrFills ==
    \/ call.strategy = "drop"
    \/ call.strategy = "fill" /\ call.fill_value.some /\ ~IsNaN(call.fill_value.val)

\* C4: handle_missing_values leaves no missing value in the processed columns.
\* With strategy 'drop' the result is exactly the rows of the input that have no
\* missing value in any of `columns`, in their original order; with strategy
\* 'fill' and a non-missing fill_value the result has the same rows, with every
\* missing cell of `columns` replaced by fill_value and every other cell
\* unchanged; in both cases check_data_quality of the result reports a missing
\* count of 0 for each of those columns.
C4_NoMissingLeft ==
    HandleReturned =>
        /\ call.strategy = "drop" =>
              /\ \A i \in DOMAIN ret.table :
                    /\ ret.table[i].idx + 1 \in DOMAIN df0
                    /\ ret.table[i] = df0[ret.table[i].idx + 1]
                    /\ \A c \in Processed : ~IsNaN(ret.table[i][c])
              /\ \A i, j \in DOMAIN ret.table :
                    i < j => ret.table[i].idx < ret.table[j].idx
              /\ \A j \in DOMAIN df0 :
                    (\A c \in Processed : ~IsNaN(df0[j][c])) =>
                        \E i \in DOMAIN ret.table : ret.table[i] = df0[j]
        /\ (call.strategy = "fill" /\ DropsOrFills) =>
              /\ SameShape(ret.table, df0)
              /\ \A i \in DOMAIN df0 : \A c \in ColSet :
                    ret.table[i][c] =
                        IF c \in Processed /\ IsNaN(df0[i][c])
                        THEN call.fill_value.val ELSE df0[i][c]
        /\ (DropsOrFills /\ pc = "checked") =>
              \A c \in Processed : report.missing_values[c] = 0

\* Column x alone was filled where it had a missing cell, and the quality
\* report of the result counts none missing in x and some in g.
C4_Witness ==
    /\ HandleReturned
    /\ pc = "checked"
    /\ call.strategy = "fill" /\ DropsOrFills
    /\ Processed = {"x"}
    /\ \E i \in DOMAIN df0 : IsNaN(df0[i].x)
    /\ report.missing_values["x"] = 0
    /\ report.missing_values["g"] > 0

\* Rows with a missing cell in the processed columns were dropped and others
\* kept.
C4_WitnessDrop ==
    /\ HandleReturned
    /\ pc = "checked"
    /\ call.strategy = "drop"
    /\ 0 < Len(ret.table) /\ Len(ret.table) < Len(df0)

\* ------------------------------------------------------ remove_outliers

OutlierMethods == {"iqr", "zscore", "none"}

\* The thresholds passed to remove_outliers, as fractions <<n, d>>; the
\* default is 1.5.
OutlierThresholds == {<<1, 4>>, <<3, 2>>}

\* The lists of columns passed as columns; "c" is not a column.
OutlierColumnLists == {<<"x">>, <<"g", "x">>, <<"x", "c">>}

\* A plausible slip: strict comparisons at the two bounds.
IqrStep_Strict(t, c, th) ==
    LET Q1 == Quantile(Column(t, c), 1, 4)
        Q3 == Quantile(Column(t, c), 3, 4)
        IQR == RSub(Q3, Q1)
        lower_bound == RSub(Q1, RMul(th, IQR))
        upper_bound == RAdd(Q3, RMul(th, IQR))
    IN  SelectSeq(t, LAMBDA row :
            RLt(lower_bound, row[c]) /\ RLt(row[c], upper_bound))

\* The 'iqr' branch for one column: the quartiles of the column as it stands,
\* the two bounds, and the rows whose value lies within them.
IqrStep(t, c, th) ==
    LET Q1 == Quantile(Column(t, c), 1, 4)
        Q3 == Quantile(Column(t, c), 3, 4)
        IQR == RSub(Q3, Q1)
        lower_bound == RSub(Q1, RMul(th, IQR))
        upper_bound == RAdd(Q3, RMul(th, IQR))
    IN  SelectSeq(t, LAMBDA row :
            RGe(row[c], lower_bound) /\ RLe(row[c], upper_bound))

\* The 'zscore' branch for one column: |x - mean| / std < threshold, with std
\* the sample deviation; compared on the squares, (x - mean)^2 < th^2 * var,
\* which is the same for th >= 0 and var > 0.  With var = 0 or fewer than two
\* values every z-score is NaN and no row is kept.
ZScoreStep(t, c, th) ==
    LET m == Mean(Column(t, c))
        var == Variance(Column(t, c), 1)
    IN  SelectSeq(t, LAMBDA row :
            /\ RLt(R(0), var)
            /\ RLt(RMul(RSub(row[c], m), RSub(row[c], m)), RMul(RMul(th, th), var)))

\* The loop of remove_outliers over columns; a column the table lacks is
\* skipped.
RECURSIVE RemoveOutliersLoop(_, _, _, _)
RemoveOutliersLoop(t, cols, method, th) ==
    IF cols = <<>> THEN t
    ELSE IF Head(cols) \notin ColSet THEN RemoveOutliersLoop(t, Tail(cols), method, th)
    ELSE IF method = "iqr"
         THEN RemoveOutliersLoop(IqrStep(t, Head(cols), th), Tail(cols), method, th)
    ELSE IF method = "zscore"
         THEN RemoveOutliersLoop(ZScoreStep(t, Head(cols), th), Tail(cols), method, th)
    ELSE RemoveOutliersLoop(t, Tail(cols), method, th)

RemoveOutliers ==
    /\ pc = "ready"
    /\ \E columns \in OutlierColumnLists, method \in OutlierMethods,
          th \in OutlierThresholds :
         /\ call' = [fn |-> "utils.remove_outliers", columns |-> columns,
                     method |-> method, threshold |-> th]
         /\ ret' = Returned(RemoveOutliersLoop(df, columns, method, th), "new")
    /\ df0' = df
    /\ pc' = "called"
    /\ UNCHANGED <<df, report>>

NextOutliers == LoadTable \/ RemoveOutliers

SpecOutliers == Init /\ [][NextOutliers]_vars

\* ------------------------------------------- claims on remove_outliers

IqrReturned ==
    /\ pc = "called"
    /\ call.fn = "utils.remove_outliers"
    /\ call.method = "iqr"

\* The pair <<Q1 - th*IQR, Q3 + th*IQR>> of the cells col.
IqrBounds(col, th) ==
    LET Q1 == Quantile(col, 1, 4)
        Q3 == Quantile(col, 3, 4)
    IN  <<RSub(Q1, RMul(th, RSub(Q3, Q1))), RAdd(Q3, RMul(th, RSub(Q3, Q1)))>>

\* x lies within the bounds b.
Within(x, b) == RLe(b[1], x) /\ RLe(x, b[2])

\* C5 (as claimed): in the table remove_outliers('iqr') returns, every value of
\* every listed column lies within [Q1 - threshold*IQR, Q3 + threshold*IQR]
\* computed on that returned column, so that applying remove_outliers again with
\* the same columns and threshold removes no further row.
C5_Original ==
    IqrReturned =>
        /\ \A c \in Listed(call.columns) :
              LET b == IqrBounds(Column(ret.table, c), call.threshold) IN
              \A i \in DOMAIN ret.table : Within(ret.table[i][c], b)
        /\ RemoveOutliersLoop(ret.table, call.columns, "iqr", call.threshold)
              = ret.table

\* The rows of t, in order, whose value in column c lies within the bounds
\* computed on column c of t.
WithinOwnBounds(t, c, th) ==
    LET b == IqrBounds(Column(t, c), th) IN
    SelectSeq(t, LAMBDA row : Within(row[c], b))

RECURSIVE FilterInTurn(_, _, _)
FilterInTurn(t, cols, th) ==
    IF cols = <<>> THEN t
    ELSE FilterInTurn(WithinOwnBounds(t, Head(cols), th), Tail(cols), th)

\* C5 (amended): remove_outliers('iqr') returns rows of the input, unchanged and
\* in their original order: exactly those that pass the filter of each listed
\* column in turn, each column's bounds [Q1 - threshold*IQR, Q3 + threshold*IQR]
\* being computed on the rows the columns before it left (for the first listed
\* column, on the input column).  Every returned value of the first listed
\* column lies within the bounds computed on the input column; the bounds
\* computed on the returned column may exclude returned values, so a second
\* application can remove further rows.
C5_Amended ==
    IqrReturned =>
        LET cs == SelectSeq(call.columns, LAMBDA c : c \in ColSet)
            first == IqrBounds(Column(df0, cs[1]), call.threshold)
        IN
        /\ \A i \in DOMAIN ret.table :
              /\ ret.table[i].idx + 1 \in DOMAIN df0
              /\ ret.table[i] = df0[ret.table[i].idx + 1]
              /\ cs # <<>> => Within(ret.table[i][cs[1]], first)
        /\ \A i, j \in DOMAIN ret.table :
              i < j => ret.table[i].idx < ret.table[j].idx
        /\ ret.table = FilterInTurn(df0, cs, call.threshold)

\* A returned table that is not a fixed point: a second application, with the
\* same columns and threshold, removes a further row.
C5_Witness ==
    /\ IqrReturned
    /\ Len(ret.table) < Len(df0)
    /\ Len(RemoveOutliersLoop(ret.table, call.columns, "iqr", call.threshold))
          < Len(ret.table)

\* ------------------------------------- normalize_data, standardize_data

Methods == {"minmax", "zscore", "robust", "custom", "l2"}

\* sklearn's _handle_zeros_in_scale: a scale of 0 is replaced by 1.
HandleZeros(scale) == IF scale = R(0) THEN R(1) ELSE scale

\* MinMaxScaler(feature_range=(range_min, range_max)).fit_transform of one
\* column: X * scale_ + min_, the statistics taken over the non-missing values.
MinMaxTransform(v, range_min, range_max) ==
    LET data_min == ColMin(v)
        data_max == ColMax(v)
        scale == RDiv(RSub(range_max, range_min), HandleZeros(RSub(data_max, data_min)))
        min_ == RSub(range_min, RMul(data_min, scale))
    IN  [i \in DOMAIN v |-> RAdd(RMul(v[i], scale), min_)]

\* RobustScaler().fit_transform of one column: (X - median) / (Q3 - Q1).
RobustTransform(v) ==
    LET center == Median(v)
        scale == HandleZeros(RSub(Quantile(v, 3, 4), Quantile(v, 1, 4)))
    IN  [i \in DOMAIN v |-> RDiv(RSub(v[i], center), scale)]

\* StandardScaler().fit_transform of one column: z = (X - mean) / sqrt(var), var
\* the population variance.  The square root is not rational: the cell holds
\* sign(z) * z^2, which determines z.
StandardTransform(v) ==
    LET m == Mean(v)
        var == Variance(v, 0)
    IN  [i \in DOMAIN v |->
            IF var = R(0) THEN RSub(v[i], m)
            ELSE RMul(R(Sign(RSub(v[i], m)[1])),
                      RDiv(RMul(RSub(v[i], m), RSub(v[i], m)), var))]

FitTransform(method, v, range_min, range_max) ==
    IF method = "minmax" THEN MinMaxTransform(v, range_min, range_max)
    ELSE IF method = "zscore" THEN StandardTransform(v)
    ELSE RobustTransform(v)

ScalerOf(method) ==
    IF method = "minmax" THEN "MinMaxScaler"
    ELSE IF method = "zscore" THEN "StandardScaler"
    ELSE "RobustScaler"

\* normalize_data of utils.py on a copy of df.  The method is checked before a
\* column is read; a column the table lacks raises KeyError, and the scalers
\* refuse a table without rows with ValueError.
NormalizeDataProject(t, columns, method, range_min, range_max) ==
    IF method \notin {"minmax", "zscore", "robust"} THEN Raised("ValueError")
    ELSE IF ~(Range(columns) \subseteq ColSet) THEN Raised("KeyError")
    ELSE IF Len(t) = 0 THEN Raised("ValueError")
    ELSE [kind |-> "pair",
          obj |-> "new",
          table |-> [i \in DOMAIN t |->
                        [k \in DOMAIN t[i] |->
                            IF k \in Range(columns)
                            THEN FitTransform(method, Column(t, k), range_min, range_max)[i]
                            ELSE t[i][k]]],
          scaler |-> ScalerOf(method)]

NormalizeData ==
    /\ pc = "ready"
    /\ \E columns \in ProjectColumnLists, method \in Methods :
         /\ call' = [fn |-> "utils.normalize_data", columns |-> columns,
                     method |-> method, range_min |-> R(0), range_max |-> R(1)]
         /\ ret' = NormalizeDataProject(df, columns, method, R(0), R(1))
    /\ df0' = df
    /\ pc' = "called"
    /\ UNCHANGED <<df, report>>

\* standardize_data: normalize_data with the method passed on and the default
\* range.
StandardizeData ==
    /\ pc = "ready"
    /\ \E columns \in ProjectColumnLists, method \in Methods :
         /\ call' = [fn |-> "utils.standardize_data", columns |-> columns,
                     method |-> method, range_min |-> R(0), range_max |-> R(1)]
         /\ ret' = NormalizeDataProject(df, columns, method, R(0), R(1))
    /\ df0' = df
    /\ pc' = "called"
    /\ UNCHANGED <<df, report>>

NextNormalize == LoadTable \/ NormalizeData \/ StandardizeData

SpecNormalize == Init /\ [][NextNormalize]_vars

\* The methods the docstring of normalize_data lists.
DocumentedMethods == {"minmax", "zscore", "robust", "custom"}

\* C3 (as claimed): normalize_data of utils.py accepts each of the documented
\* methods 'minmax', 'zscore', 'robust' and 'custom', returning a (normalized
\* table, scaler) pair (here: for a table with rows and columns it has), and
\* raises ValueError for every other method, the input table unmodified.
C3_DocumentedMethodsAccepted ==
    (pc = "called" /\ call.fn \in {"utils.normalize_data", "utils.standardize_data"}) =>
        /\ df = df0
        /\ (call.method \in DocumentedMethods /\ Len(df0) > 0
                /\ Range(call.columns) \subseteq ColSet) => ret.kind = "pair"
        /\ call.method \notin DocumentedMethods => ret = Raised("ValueError")

\* --------------------------------------------------- create_sample_data

\* The keys of data, in insertion order: the numeric columns, then the
\* categorical ones.
SampleColumns(n_cols, include_categorical) ==
    [i \in 1..(n_cols \div 2) |-> <<"num_col", i - 1>>]
    \o (IF include_categorical
        THEN [i \in 1..(n_cols \div 2) |-> <<"cat_col", i - 1>>]
        ELSE <<>>)

\* create_sample_data: a frame of the columns of data, with n_rows rows (none
\* when data is empty); the random mask marks the cells set to NaN.  The
\* random values of the other cells are not part of the model.
CreateSampleData ==
    /\ pc = "start"
    /\ \E n_rows \in 1..MaxSampleRows, n_cols \in 0..MaxSampleCols,
          include_categorical \in BOOLEAN :
         LET columns == SampleColumns(n_cols, include_categorical)
             nrows == IF columns = <<>> THEN 0 ELSE n_rows
         IN  /\ call' = [fn |-> "utils.create_sample_data", n_rows |-> n_rows,
                         n_cols |-> n_cols,
                         include_categorical |-> include_categorical]
             /\ \E mask \in [(1..nrows) \X (1..Len(columns)) -> BOOLEAN] :
                  ret' = [kind |-> "frame", columns |-> columns, nrows |-> nrows,
                          isnull |-> mask]
    /\ pc' = "called"
    /\ UNCHANGED <<df, df0, report>>

SpecSample == Init /\ [][CreateSampleData]_vars

\* C7 (as claimed): create_sample_data(n_rows, n_cols, include_categorical)
\* returns a table with exactly n_rows rows and exactly n_cols columns, for
\* every n_rows >= 1, every n_cols >= 0 and both values of include_categorical.
C7_ShapeAsRequested ==
    (pc = "called" /\ call.fn = "utils.create_sample_data") =>
        /\ ret.nrows = call.n_rows
        /\ Len(ret.columns) = call.n_cols

\* ---------------------------------------- homework3/src/utils.py

\* The strings entered at the two prompts; "c" is not a column.
Entered == ColSet \cup {"c"}

\* The values of column target in the rows whose column group holds key.
GroupValues(t, group, target, key) ==
    Column(SelectSeq(t, LAMBDA row : row[group] = key), target)

\* The present keys of column group, in increasing order (groupby sorts the
\* keys and drops the missing one).
GroupKeys(t, group) ==
    LET keys == Range(Valid(Column(t, group))) IN
    [k \in 1..Cardinality(keys) |->
        CHOOSE key \in keys : Cardinality({o \in keys : RLt(o, key)}) = k - 1]

\* df.groupby(group)[target].agg(['min', 'max', 'std']) with the group keys as
\* a column: one row per key.  std is the sample deviation; the row holds its
\* square, std_sq.
GroupAgg(t, group, target) ==
    LET keys == GroupKeys(t, group) IN
    [k \in DOMAIN keys |->
        LET v == GroupValues(t, group, target, keys[k]) IN
        [idx |-> k - 1, key |-> keys[k], min |-> ColMin(v), max |-> ColMax(v),
         std_sq |-> Variance(v, 1)]]

\* frame.reset_index(inplace=True): the frame is changed in place and the
\* call returns None.
ResetIndexInplace(frame) == [frame |-> frame, returns |-> [kind |-> "None"]]

\* get_summary_stats: summary is what reset_index(inplace=True) returns.
GetSummaryStats ==
    /\ pc = "ready"
    /\ \E group_column \in Entered, target_column \in Entered :
         /\ call' = [fn |-> "utils3.get_summary_stats",
                     group_column |-> group_column, target_column |-> target_column]
         /\ ret' = IF group_column \notin ColSet \/ target_column \notin ColSet
                   THEN Raised("KeyError")
                   ELSE ResetIndexInplace(GroupAgg(df, group_column, target_column)).returns
    /\ df0' = df
    /\ pc' = "called"
    /\ UNCHANGED <<df, report>>

NextHw3 == LoadTable \/ GetSummaryStats

SpecHw3 == Init /\ [][NextHw3]_vars

\* C2 (as claimed): for every input table and every entered pair of existing
\* group column and target column, get_summary_stats returns a table (never
\* None) with exactly one row per distinct value of the group column, holding
\* that group's min, max and std of the target column.
C2_ReturnsSummaryTable ==
    (/\ pc = "called"
     /\ call.fn = "utils3.get_summary_stats"
     /\ call.group_column \in ColSet
     /\ call.target_column \in ColSet) =>
        /\ ret.kind = "table"
        /\ Len(ret.table) =
              Cardinality(Range(Valid(Column(df0, call.group_column))))
        /\ \A k \in DOMAIN ret.table :
              LET v == GroupValues(df0, call.group_column, call.target_column,
                                   ret.table[k].key)
              IN  /\ ret.table[k].min = ColMin(v)
                  /\ ret.table[k].max = ColMax(v)
                  /\ ret.table[k].std_sq = Variance(v, 1)
        /\ \A k, l \in DOMAIN ret.table : k # l => ret.table[k].key # ret.table[l].key

\* ------------------------------------------------------ the whole model

Next ==
    \/ LoadTable
    \/ GetSummaryStats
    \/ FillMissingMedian
    \/ DropMissing
    \/ NormalizeDataHw6
    \/ HandleMissing
    \/ CheckDataQuality
    \/ RemoveOutliers
    \/ NormalizeData
    \/ StandardizeData
    \/ CreateSampleData

Spec == Init /\ [][Next]_vars

====
